---------------------------- MODULE Spec2Model ----------------------------
(***************************************************************************)
(* A model of the Veracode HTTP request wrapper, src/src/VeracodeClient.js *)
(* (class VeracodeClient): construction, the HMAC authorization header,    *)
(* the XML and REST request paths, the response-shape helpers and the zip  *)
(* archive helper.                                                         *)
(*                                                                         *)
(* JavaScript values are records tagged by their typeof: Undefined,        *)
(* Str(s) (a string held as a TLA+ string), Chars(c) (a string held as a   *)
(* sequence of one-character strings, where the code reads it character by *)
(* character), Obj(p) (an object with the properties p, a function from   *)
(* property names), Arr(s) (an array).  A Buffer is a record               *)
(* [hex |-> its lower-case hex rendering].                                 *)
(***************************************************************************)
EXTENDS Integers, Sequences, FiniteSets, TLC

VARIABLES
    client,     \* the VeracodeClient most recently constructed, or NoClient
    ctor,       \* outcome of the most recent constructor call
    prevSign,   \* the signing call before the most recent one, or NoSign
    lastSign,   \* the most recent calculateAuthorizationHeader call, or NoSign
    call,       \* the XML / REST call in progress or last finished
    caInput,    \* controlledArray: the argument under test
    caTrace,    \* controlledArray: results of successive applications
    zip,        \* createZipArchive: promise, handlers, streams
    peer        \* a second call on the same client, running alongside `call`

vars == <<client, ctor, prevSign, lastSign, call, caInput, caTrace, zip, peer>>

-----------------------------------------------------------------------------
(* JavaScript values *)

Undefined == [type |-> "undefined"]
Str(s)    == [type |-> "string", val |-> s]
Chars(c)  == [type |-> "string", chars |-> c]
Obj(p)    == [type |-> "object", props |-> p]
Arr(s)    == [type |-> "array", items |-> s]

\* the object literal {}
NoProps == [k \in {} |-> Undefined]

\* o.key: undefined when o has no such property (an array has none of the
\* names read here)
Get(o, key) ==
    IF o.type = "object" /\ key \in DOMAIN o.props THEN o.props[key] ELSE Undefined

\* JavaScript truthiness of the values above: undefined and "" are falsy.
Truthy(v) ==
    /\ v.type # "undefined"
    /\ v.type = "string" =>
          IF "val" \in DOMAIN v THEN v.val # "" ELSE v.chars # <<>>

-----------------------------------------------------------------------------
(* Bounds *)

\* Date.now() returns one of MaxTick + 1 consecutive millisecond values
MaxTick == 1

Timestamps == { 1000 + i : i \in 0..MaxTick }

-----------------------------------------------------------------------------
(* URLs.  A URL string is held by its components as written (port "443"   *)
(* may be spelled out); NewURL is what `new URL(string)` makes of it.      *)

RawURL(protocol, hostname, port, pathname, search) ==
    [protocol |-> protocol, hostname |-> hostname, port |-> port,
     pathname |-> pathname, search |-> search]

DefaultPort(protocol) ==
    CASE protocol = "https:" -> "443"
      [] protocol = "http:"  -> "80"
      [] OTHER               -> ""

\* new URL(urlString): the default port of the scheme is dropped
NewURL(u) ==
    [u EXCEPT !.port = IF u.port = DefaultPort(u.protocol) THEN "" ELSE u.port]

\* new URL(endPoint, base) for a relative endPoint [path, search] and a base
\* whose path ends in "/": the endPoint is appended to the base directory
NewURLFrom(endPoint, base) ==
    [NewURL(base) EXCEPT !.pathname = base.pathname \o endPoint.path,
                         !.search = endPoint.search]

\* url.host: the hostname, followed by ":" and the port when a port is kept
UrlHost(url) ==
    IF url.port = "" THEN url.hostname ELSE url.hostname \o ":" \o url.port

UrlHref(url) ==
    url.protocol \o "//" \o UrlHost(url) \o url.pathname \o url.search

-----------------------------------------------------------------------------
(* Buffers and hex *)

HexDigits == <<"0", "1", "2", "3", "4", "5", "6", "7",
               "8", "9", "a", "b", "c", "d", "e", "f">>

UpperHex == [c \in {"A", "B", "C", "D", "E", "F"} |->
               CASE c = "A" -> "a" [] c = "B" -> "b" [] c = "C" -> "c"
                 [] c = "D" -> "d" [] c = "E" -> "e" [] OTHER -> "f"]

IsHexChar(c) == (\E i \in 1..16 : HexDigits[i] = c) \/ c \in DOMAIN UpperHex

LowerHex(c) == IF c \in DOMAIN UpperHex THEN UpperHex[c] ELSE c

\* Buffer.toString('hex') of a sequence of bytes
RECURSIVE BytesToHex(_)
BytesToHex(bytes) ==
    IF bytes = <<>> THEN ""
    ELSE HexDigits[(Head(bytes) \div 16) + 1] \o HexDigits[(Head(bytes) % 16) + 1]
         \o BytesToHex(Tail(bytes))

BufferOfBytes(bytes) == [hex |-> BytesToHex(bytes)]

\* Buffer.from(string, 'hex'): two characters per byte, decoding stops at the
\* first pair that is not two hex digits; a trailing odd character is dropped
RECURSIVE HexPairs(_)
HexPairs(chars) ==
    IF Len(chars) < 2 \/ ~IsHexChar(chars[1]) \/ ~IsHexChar(chars[2]) THEN ""
    ELSE LowerHex(chars[1]) \o LowerHex(chars[2])
         \o HexPairs(SubSeq(chars, 3, Len(chars)))

BufferFromHex(str) == [hex |-> HexPairs(str.chars)]

IsBuffer(v) == "hex" \in DOMAIN v

-----------------------------------------------------------------------------
(* The client object and its constructor *)

NoClient == [type |-> "undefined"]

CtorMessage == "Both Veracode API ID and key must be defined"

\* the fields the constructor assigns
NewClient(apiId, apiKey) ==
    [type |-> "object",
     apiId |-> apiId.val,
     apiKey |-> apiKey,
     hashAlgorithm |-> "sha256",
     authScheme |-> "VERACODE-HMAC-SHA-256",
     requestVersion |-> "vcode_request_version_1",
     nonceSize |-> 16,
     apiBase |-> RawURL("https:", "analysiscenter.veracode.com", "", "/api/5.0/", ""),
     apiBase4 |-> RawURL("https:", "analysiscenter.veracode.com", "", "/api/4.0/", ""),
     apiBaseRest |-> RawURL("https:", "api.veracode.com", "", "/appsec/v1/", "")]

ThrowsWhenBothMissing(apiId, apiKey) == ~Truthy(apiId) /\ ~Truthy(apiKey)

\* if (!(apiId && apiKey)) throw
CtorThrows(apiId, apiKey) == ~(Truthy(apiId) /\ Truthy(apiKey))

\* the outcome of `new VeracodeClient(apiId, apiKey, ...rest)`; arguments after
\* the second are not read
ConstructResult(apiId, apiKey, returnXml) ==
    IF CtorThrows(apiId, apiKey)
    THEN [called |-> TRUE, apiId |-> apiId, apiKey |-> apiKey, returnXml |-> returnXml,
          threw |-> TRUE, message |-> CtorMessage, object |-> NoClient]
    ELSE [called |-> TRUE, apiId |-> apiId, apiKey |-> apiKey, returnXml |-> returnXml,
          threw |-> FALSE, message |-> "", object |-> NewClient(apiId, apiKey)]

NoCtor == [called |-> FALSE]

ApiIds  == { Undefined, Str(""), Str("fake") }
ApiKeys == { Undefined, Chars(<<>>), Chars(<<"A", "b", "1", "2">>) }

-----------------------------------------------------------------------------
(* Authorization header *)

\* Date.now().toString()
currentDateStamp(now) == ToString(now)

\* crypto.randomBytes(size): some buffer of `size` bytes
NonceSamples(size) ==
    { [i \in 1..size |-> IF i = 1 THEN b ELSE 0] : b \in {97, 254} }

\* crypto.createHmac(alg, key).update(data).digest(), as a term that two
\* calls share only when algorithm, key and data are the same
HmacDigest(alg, key, data) ==
    [hex |-> "hmac-" \o alg \o "(" \o key.hex \o ","
             \o (IF IsBuffer(data) THEN "0x" \o data.hex ELSE data.val) \o ")"]

computeHash(self, data, key) == HmacDigest(self.hashAlgorithm, key, data)

SwappedDataSignature(self, apiKey, nonceBytes, dateStamp, data) ==
    LET kDate == computeHash(self, Str(dateStamp), BufferFromHex(apiKey))
        kNonce == computeHash(self, nonceBytes, kDate)
        kSignature == computeHash(self, Str(self.requestVersion), kNonce)
    IN  computeHash(self, Str(data), kSignature)

calculateDataSignature(self, apiKey, nonceBytes, dateStamp, data) ==
    LET kNonce == computeHash(self, nonceBytes, BufferFromHex(apiKey))
        kDate == computeHash(self, Str(dateStamp), kNonce)
        kSignature == computeHash(self, Str(self.requestVersion), kDate)
    IN  computeHash(self, Str(data), kSignature)

\* `id=${this.apiId}&host=${hostName}&url=${veraURL}&method=${httpMethod}`
CanonicalData(self, urlString, httpMethod) ==
    LET url == NewURL(urlString)
        hostName == url.hostname
        veraURL == url.pathname \o url.search
    IN  "id=" \o self.apiId \o "&host=" \o hostName \o "&url=" \o veraURL
        \o "&method=" \o httpMethod

\* the header for one call, given what Date.now() and crypto.randomBytes()
\* returned inside it
calculateAuthorizationHeader(self, urlString, httpMethod, now, nonce) ==
    LET data == CanonicalData(self, urlString, httpMethod)
        dateStamp == currentDateStamp(now)
        nonceBytes == BufferOfBytes(nonce)
        dataSignature ==
            calculateDataSignature(self, self.apiKey, nonceBytes, dateStamp, data)
        authorizationParam ==
            "id=" \o self.apiId \o ",ts=" \o dateStamp \o ",nonce=" \o nonceBytes.hex
            \o ",sig=" \o dataSignature.hex
    IN  self.authScheme \o " " \o authorizationParam

NoSign == [signed |-> FALSE]

\* what a caller of calculateAuthorizationHeader can observe, with the inputs
SignRecord(self, urlString, httpMethod, now, nonce) ==
    [signed |-> TRUE,
     apiId |-> self.apiId, apiKey |-> self.apiKey,
     urlString |-> urlString, httpMethod |-> httpMethod,
     now |-> now, nonce |-> nonce,
     data |-> CanonicalData(self, urlString, httpMethod),
     sig |-> calculateDataSignature(self, self.apiKey, BufferOfBytes(nonce),
                                    currentDateStamp(now),
                                    CanonicalData(self, urlString, httpMethod)).hex,
     header |-> calculateAuthorizationHeader(self, urlString, httpMethod, now, nonce)]

HttpMethods == {"GET", "POST"}

UrlStrings ==
    { RawURL("https:", "api.veracode.com", "", "/appsec/v1/applications", ""),
      RawURL("https:", "api.veracode.com", "", "/appsec/v1/applications", "?page=1"),
      RawURL("https:", "api.veracode.com", "", "/appsec/v1/findings", ""),
      RawURL("https:", "analysiscenter.veracode.com", "", "/appsec/v1/applications", ""),
      RawURL("https:", "api.veracode.com", "8443", "/appsec/v1/applications", ""),
      RawURL("https:", "api.veracode.com", "443", "/appsec/v1/applications", "") }

-----------------------------------------------------------------------------
(* XML text and convert.xml2js(text, {compact: true}).  A text is the       *)
(* sequence of its tags and character data.                                *)

OpenTag(name, attrs) == [k |-> "open", name |-> name, attrs |-> attrs]
EmptyTag(name, attrs) == [k |-> "empty", name |-> name, attrs |-> attrs]
CloseTag(name) == [k |-> "close", name |-> name]
Text(t) == [k |-> "text", text |-> t]

\* an element as it starts out: its attributes under _attributes, when it has any
ElementOf(attrs) ==
    IF DOMAIN attrs = {} THEN Obj(NoProps)
    ELSE Obj("_attributes" :> Obj([a \in DOMAIN attrs |-> Str(attrs[a])]))

\* a child element joins its parent: alone under its name, and in an array
\* under its name as soon as the name repeats
AddChild(parent, name, child) ==
    LET old == Get(parent, name) IN
    IF old = Undefined THEN Obj((name :> child) @@ parent.props)
    ELSE IF old.type = "array"
         THEN Obj((name :> Arr(Append(old.items, child))) @@ parent.props)
         ELSE Obj((name :> Arr(<<old, child>>)) @@ parent.props)

AddText(parent, t) == Obj(("_text" :> Str(t)) @@ parent.props)

\* the content of the element open at position i: the node built and the
\* position after its closing tag
RECURSIVE ParseContent(_, _, _)
ParseContent(toks, i, node) ==
    IF i > Len(toks) THEN [node |-> node, next |-> i]
    ELSE LET t == toks[i] IN
         CASE t.k = "close" -> [node |-> node, next |-> i + 1]
           [] t.k = "text"  -> ParseContent(toks, i + 1, AddText(node, t.text))
           [] t.k = "empty" ->
                ParseContent(toks, i + 1, AddChild(node, t.name, ElementOf(t.attrs)))
           [] OTHER ->
                LET sub == ParseContent(toks, i + 1, ElementOf(t.attrs))
                IN  ParseContent(toks, sub.next, AddChild(node, t.name, sub.node))

xml2js(xmlText) == ParseContent(xmlText, 1, Obj(NoProps)).node

NoAttrs == [a \in {} |-> ""]

ErrorTexts == {"No report available.", "Baby did a boom boom"}

\* bodies the service answers with
XmlBodies ==
    { <<OpenTag("error", NoAttrs), Text(x), CloseTag("error")>> : x \in ErrorTexts }
    \cup
    { <<EmptyTag("error", NoAttrs)>>,
      <<OpenTag("test", ("account_id" :> "123") @@ ("app_id" :> "456")),
        EmptyTag("nested", "nested_id" :> "789"), CloseTag("test")>>,
      <<OpenTag("detailedreport", "build_id" :> "123"),
        OpenTag("error", NoAttrs), Text("No report available."), CloseTag("error"),
        CloseTag("detailedreport")>>,
      <<EmptyTag("applist", NoAttrs)>>,
      <<OpenTag("applist", NoAttrs),
        EmptyTag("app", "app_id" :> "1"), CloseTag("applist")>>,
      <<OpenTag("applist", NoAttrs),
        EmptyTag("app", "app_id" :> "1"), EmptyTag("app", "app_id" :> "2"),
        CloseTag("applist")>> }

-----------------------------------------------------------------------------
(* Promises and errors *)

Pending == [state |-> "pending"]
Fulfilled(v) == [state |-> "fulfilled", value |-> v]
Rejected(e) == [state |-> "rejected", error |-> e]

\* new Error(message): an undefined message gives the empty message
NewError(message) ==
    [name |-> "Error",
     message |-> IF message = Undefined THEN "" ELSE message.val]

\* what the transport can fail with
TransportErrors ==
    { [name |-> "RequestError", message |-> "connect ECONNREFUSED"],
      [name |-> "StatusCodeError", message |-> "500 - Internal Server Error"] }

-----------------------------------------------------------------------------
(* Veracode XML API wrapper *)

\* the options object of _xmlRequest / _restRequest
Options(endPoint, apiBase, form, formData) ==
    [endPoint |-> endPoint, apiBase |-> apiBase, form |-> form, formData |-> formData]

EndPoint(path) == [path |-> path, search |-> ""]

\* new URL(options.endPoint, options.apiBase || defaultBase)
RequestUri(options, defaultBase) ==
    NewURLFrom(options.endPoint,
               IF options.apiBase # Undefined THEN options.apiBase ELSE defaultBase)

AlwaysGet(options) == "GET"

ContentSensitiveMethod(options) ==
    LET filled(o) == /\ Truthy(o)
                     /\ \E f \in DOMAIN o.props : o.props[f] # Undefined
    IN  IF filled(options.form) \/ filled(options.formData) THEN "POST" ELSE "GET"

\* (options.form || options.formData) ? 'POST' : 'GET'
XmlMethod(options) ==
    IF Truthy(options.form) \/ Truthy(options.formData) THEN "POST" ELSE "GET"

\* the argument _xmlRequest passes to request()
XmlRequestArg(self, options, now, nonce) ==
    LET uri == RequestUri(options, self.apiBase)
        method == XmlMethod(options)
    IN  [method |-> method,
         uri |-> uri,
         headers |-> [Authorization |->
                        calculateAuthorizationHeader(self, uri, method, now, nonce)],
         form |-> options.form,
         formData |-> options.formData,
         gzip |-> TRUE]

IgnoreErrorElement(xmlResponse) == Fulfilled(xml2js(xmlResponse))

\* _xmlRequest once request() has resolved with xmlResponse
XmlOutcome(xmlResponse) ==
    LET jsResponse == xml2js(xmlResponse) IN
    IF Truthy(Get(jsResponse, "error"))
    THEN Rejected(NewError(Get(Get(jsResponse, "error"), "_text")))
    ELSE Fulfilled(jsResponse)

WrapAlways(a) == IF a = Undefined THEN Arr(<<>>) ELSE Arr(<<a>>)

\* typeof a === 'undefined' ? [] : [].concat(a)
controlledArray(a) ==
    IF a = Undefined THEN Arr(<<>>)
    ELSE IF a.type = "array" THEN Arr(a.items) ELSE Arr(<<a>>)

\* reading a property of undefined throws
TypeError(key) ==
    [name |-> "TypeError",
     message |-> "Cannot read property '" \o key \o "' of undefined"]

\* form: { wire_name: options.optionName, ... }
FormOf(options, fields) ==
    Obj([f \in DOMAIN fields |-> Get(options, fields[f])])

\* uploadFile's formData: app_id and the file stream, sandbox_id and save_as
\* only when given
UploadFormData(options) ==
    LET base == ("app_id" :> Get(options, "appId"))
                @@ ("file" :> Obj("path" :> Get(options, "file")))
        sandbox == IF Truthy(Get(options, "sandboxId"))
                   THEN "sandbox_id" :> Get(options, "sandboxId") ELSE NoProps
        saveAs == IF Truthy(Get(options, "saveAs"))
                  THEN "save_as" :> Get(options, "saveAs") ELSE NoProps
    IN  Obj(base @@ sandbox @@ saveAs)

\* the XML API functions: end point, form fields, and what of the response is
\* returned (response[container], through controlledArray on its [child] for
\* the list functions)
XmlWrappers ==
    [getAppList |->
        [endPoint |-> "getapplist.do", v4 |-> FALSE, body |-> "none",
         fields |-> NoProps, container |-> "applist", child |-> "app"],
     getSandboxList |->
        [endPoint |-> "getsandboxlist.do", v4 |-> FALSE, body |-> "form",
         fields |-> "app_id" :> "appId",
         container |-> "sandboxlist", child |-> "sandbox"],
     createSandbox |->
        [endPoint |-> "createsandbox.do", v4 |-> FALSE, body |-> "form",
         fields |-> ("app_id" :> "appId") @@ ("sandbox_name" :> "sandboxName"),
         container |-> "sandboxinfo", child |-> ""],
     getBuildList |->
        [endPoint |-> "getbuildlist.do", v4 |-> FALSE, body |-> "form",
         fields |-> ("app_id" :> "appId") @@ ("sandbox_id" :> "sandboxId"),
         container |-> "buildlist", child |-> "build"],
     getAppBuilds |->
        [endPoint |-> "getappbuilds.do", v4 |-> TRUE, body |-> "form",
         fields |-> ("report_changed_since" :> "reportChangedSince")
                    @@ ("only_latest" :> "onlyLatest")
                    @@ ("include_in_progress" :> "includeInProgress"),
         container |-> "applicationbuilds", child |-> "application"],
     detailedReport |->
        [endPoint |-> "detailedreport.do", v4 |-> FALSE, body |-> "form",
         fields |-> "build_id" :> "buildId",
         container |-> "detailedreport", child |-> ""],
     uploadFile |->
        [endPoint |-> "uploadfile.do", v4 |-> FALSE, body |-> "formData",
         fields |-> NoProps, container |-> "filelist", child |-> ""],
     beginPrescan |->
        [endPoint |-> "beginprescan.do", v4 |-> FALSE, body |-> "form",
         fields |-> ("app_id" :> "appId") @@ ("auto_scan" :> "autoScan")
                    @@ ("sandbox_id" :> "sandboxId")
                    @@ ("scan_all_nonfatal_top_level_modules" :>
                          "scanAllNonfatalTopLevelModules"),
         container |-> "buildinfo", child |-> ""],
     createApp |->
        [endPoint |-> "createapp.do", v4 |-> FALSE, body |-> "form",
         fields |-> ("app_name" :> "appName") @@ ("description" :> "description")
                    @@ ("vendor_id" :> "vendorId")
                    @@ ("business_criticality" :> "businessCriticality")
                    @@ ("policy" :> "policy") @@ ("business_unit" :> "businessUnit")
                    @@ ("business_owner" :> "businessOwner")
                    @@ ("business_owner_email" :> "businessOwnerEmail")
                    @@ ("teams" :> "teams") @@ ("origin" :> "origin")
                    @@ ("industry" :> "industry") @@ ("app_type" :> "appType")
                    @@ ("deployment_method" :> "deploymentMethod")
                    @@ ("web_application" :> "webApplication")
                    @@ ("archer_app_name" :> "archerAppName") @@ ("tags" :> "tags"),
         container |-> "appinfo", child |-> ""],
     createBuild |->
        [endPoint |-> "createbuild.do", v4 |-> FALSE, body |-> "form",
         fields |-> ("app_id" :> "appId") @@ ("version" :> "appVersion")
                    @@ ("lifecycle_stage" :> "lifecycleStage")
                    @@ ("launch_date" :> "launchDate")
                    @@ ("sandbox_id" :> "sandboxId")
                    @@ ("legacy_scan_engine" :> "legacyScanEngine"),
         container |-> "buildinfo", child |-> ""],
     getBuildInfo |->
        [endPoint |-> "getbuildinfo.do", v4 |-> FALSE, body |-> "form",
         fields |-> ("app_id" :> "appId") @@ ("build_id" :> "buildId")
                    @@ ("sandbox_id" :> "sandboxId"),
         container |-> "buildinfo", child |-> ""],
     deleteApp |->
        [endPoint |-> "deleteapp.do", v4 |-> FALSE, body |-> "form",
         fields |-> "app_id" :> "appId",
         container |-> "applist", child |-> "app"]]

\* the API functions that return a list: those that read a repeated child
ListWrappers == { w \in DOMAIN XmlWrappers : XmlWrappers[w].child # "" }

\* the most children a list document holds
MaxChildren == 2

\* the i-th child element of a list document
ChildTag(child, i) == EmptyTag(child, (child \o "_id") :> ToString(i))

\* <container/> and <container><child child_id="1"/>...</container>
ListBody(container, child, n) ==
    IF n = 0 THEN <<EmptyTag(container, NoAttrs)>>
    ELSE <<OpenTag(container, NoAttrs)>>
         \o [i \in 1..n |-> ChildTag(child, i)]
         \o <<CloseTag(container)>>

ListBodies ==
    { ListBody(XmlWrappers[w].container, XmlWrappers[w].child, n) :
        w \in ListWrappers, n \in 0..MaxChildren }

\* the options an XML API function passes to _xmlRequest
WrapperOptions(self, w, options) ==
    Options(EndPoint(XmlWrappers[w].endPoint),
            IF XmlWrappers[w].v4 THEN self.apiBase4 ELSE Undefined,
            IF XmlWrappers[w].body = "form"
            THEN FormOf(options, XmlWrappers[w].fields) ELSE Undefined,
            IF XmlWrappers[w].body = "formData"
            THEN UploadFormData(options) ELSE Undefined)

BareWrapperOutcome(w, settled) ==
    IF settled.state = "rejected" THEN settled
    ELSE LET container == Get(settled.value, XmlWrappers[w].container) IN
         IF XmlWrappers[w].child = "" THEN Fulfilled(container)
         ELSE IF container = Undefined THEN Rejected(TypeError(XmlWrappers[w].child))
         ELSE Fulfilled(Get(container, XmlWrappers[w].child))

\* what an XML API function makes of the settled _xmlRequest it awaits
WrapperOutcome(w, settled) ==
    IF settled.state = "rejected" THEN settled
    ELSE LET container == Get(settled.value, XmlWrappers[w].container) IN
         IF XmlWrappers[w].child = "" THEN Fulfilled(container)
         ELSE IF container = Undefined THEN Rejected(TypeError(XmlWrappers[w].child))
         ELSE Fulfilled(controlledArray(Get(container, XmlWrappers[w].child)))

\* option objects callers pass to the XML API functions
CallerOptions ==
    { Obj(NoProps),
      Obj(("appId" :> Str("1")) @@ ("buildId" :> Str("123"))
          @@ ("sandboxId" :> Str("456")) @@ ("file" :> Str("my_lil_file.zip"))
          @@ ("appName" :> Str("veracode-client-test"))
          @@ ("includeInProgress" :> Str("true"))) }

\* option objects callers pass to _xmlRequest itself
DirectXmlOptions ==
    { Options(EndPoint("mytest.do"), Undefined, Undefined, Undefined),
      Options(EndPoint("mytest.do"), Undefined,
              Obj("build_id" :> Str("123")), Undefined),
      Options(EndPoint("mytest.do"),
              RawURL("https:", "localhost", "8443", "/api/5.0/", ""),
              Undefined, Undefined) }

-----------------------------------------------------------------------------
(* Veracode REST API wrapper *)

\* the longest chain of linked pages the service holds
MaxPages == 2

\* a response text: JSON for a value, or text that is not JSON
JsonText(v) == [json |-> TRUE, value |-> v]
MalformedJson == [json |-> FALSE]

\* JSON.parse(text): the value, or a SyntaxError thrown
JsonParse(text) ==
    IF text.json THEN Fulfilled(text.value)
    ELSE Rejected([name |-> "SyntaxError", message |-> "Unexpected token < in JSON"])

Item(id) == Obj("guid" :> Str(id))

\* what a page of a collection holds: no _embedded envelope, or its items
NoEnvelope == [embedded |-> FALSE, items |-> <<>>]
PageOf(items) == [embedded |-> TRUE, items |-> items]

PageContents ==
    { NoEnvelope, PageOf(<<>>), PageOf(<<Item("a")>>),
      PageOf(<<Item("b"), Item("c")>>) }

\* the chains of pages of a collection: page k links to page k + 1, the last
\* page has an empty link envelope
Chains == UNION { [1..n -> PageContents] : n \in 1..MaxPages }

\* the URL page k of a collection is served at
PageUrl(firstUrl, k) ==
    IF k = 1 THEN firstUrl
    ELSE [firstUrl EXCEPT !.search = "?limit=100&page=" \o ToString(k - 1)]

\* the JSON value of page k of a chain served for `resource`
PageValue(chain, k, resource, firstUrl) ==
    LET links == IF k < Len(chain)
                 THEN Obj("next" :> Obj("href" :> PageUrl(firstUrl, k + 1)))
                 ELSE Obj(NoProps)
        embedded == IF chain[k].embedded
                    THEN "_embedded" :> Obj(resource :> Arr(chain[k].items))
                    ELSE NoProps
    IN  Obj(embedded @@ ("_links" :> links))

\* the options callers give _restRequest: an end point, and a query or none
RestOptions(endPoint, query) ==
    [query |-> query] @@ Options(endPoint, Undefined, Undefined, Undefined)

RestQueries == { Undefined, Str("modified_after=2018-12-31") }

StaleHeaderArg(self, options, now, nonce) ==
    LET uri == RequestUri(options, self.apiBaseRest)
        method == "GET"
    IN  [method |-> method,
         uri |-> uri,
         headers |-> [Authorization |->
                        calculateAuthorizationHeader(self, uri, method, 1000, nonce)]]

\* the argument _restRequest passes to request()
RestRequestArg(self, options, now, nonce) ==
    LET uri == RequestUri(options, self.apiBaseRest)
        method == "GET"
    IN  [method |-> method,
         uri |-> uri,
         headers |-> [Authorization |->
                        calculateAuthorizationHeader(self, uri, method, now, nonce)]]

\* if (response._embedded) return response._embedded; else return []
getEmbedded(response) ==
    IF Truthy(Get(response, "_embedded")) THEN Get(response, "_embedded")
    ELSE Arr(<<>>)

\* _restRequest once request() has resolved with `response`
RestOutcome(response) ==
    LET responseParsed == JsonParse(response) IN
    IF responseParsed.state = "rejected" THEN responseParsed
    ELSE Fulfilled(getEmbedded(responseParsed.value))

\* the REST API functions: end point and the property of the _restRequest
\* result they return
RestWrappers ==
    [getApplications |-> [endPoint |-> "applications", property |-> "applications"],
     getFindings |-> [endPoint |-> "applications/some-long-guid/findings",
                      property |-> "findings"]]

\* return response.applications / return response.findings
RestWrapperOutcome(w, settled) ==
    IF settled.state = "rejected" THEN settled
    ELSE Fulfilled(Get(settled.value, RestWrappers[w].property))

\* the resource a REST call is for: the last segment of its end point
RestResource(op) ==
    IF op \in DOMAIN RestWrappers THEN RestWrappers[op].property ELSE "applications"

\* the second argument callers give _restRequest: none, true or false
PageArgs == { Undefined, [type |-> "boolean", val |-> TRUE],
              [type |-> "boolean", val |-> FALSE] }

-----------------------------------------------------------------------------
(* createZipArchive *)

\* the most bytes the archiver writes, and the most warning and error events
\* it emits
MaxBytes == 3
MaxEvents == 2

LateHandlerSteps ==
    <<"createStreams", "pipe", "glob", "finalize", "onClose", "onWarning", "onError">>

\* the statements of the promise executor, in order
ExecutorSteps ==
    <<"createStreams", "onClose", "onWarning", "onError", "pipe", "glob", "finalize">>

NoZip ==
    [step |-> 0, handlers |-> {}, promise |-> Pending, pointer |-> 0,
     closed |-> FALSE, log |-> <<>>, events |-> 0, unhandled |-> FALSE,
     emitted |-> <<>>]

\* resolve(v) and reject(e) of the promise: the first to be called settles it
OverwritingResolve(z, v) == [z EXCEPT !.promise = Fulfilled(v)]

Resolve(z, v) ==
    IF z.promise.state = "pending" THEN [z EXCEPT !.promise = Fulfilled(v)] ELSE z
Reject(z, e) ==
    IF z.promise.state = "pending" THEN [z EXCEPT !.promise = Rejected(e)] ELSE z

ResolveEarly(z, stmt) ==
    LET done == [z EXCEPT !.step = @ + 1] IN
    CASE stmt = "onClose"   -> [done EXCEPT !.handlers = @ \cup {"close"}]
      [] stmt = "onWarning" -> [done EXCEPT !.handlers = @ \cup {"warning"}]
      [] stmt = "onError"   -> [done EXCEPT !.handlers = @ \cup {"error"}]
      [] stmt = "finalize"  -> Resolve(done, done.pointer)
      [] OTHER              -> done

\* one statement of the executor
Execute(z, stmt) ==
    LET done == [z EXCEPT !.step = @ + 1] IN
    CASE stmt = "onClose"   -> [done EXCEPT !.handlers = @ \cup {"close"}]
      [] stmt = "onWarning" -> [done EXCEPT !.handlers = @ \cup {"warning"}]
      [] stmt = "onError"   -> [done EXCEPT !.handlers = @ \cup {"error"}]
      [] OTHER              -> done

\* output.on('close', () => resolve(archive.pointer()))
OnClose(z) == Resolve(z, z.pointer)

RejectEveryWarning(z, warn) == Reject(z, warn)

\* archive.on('warning', (warn) => ...)
OnWarning(z, warn) ==
    IF warn.code = "ENOENT"
    THEN [z EXCEPT !.log = Append(@, "Warning: " \o warn.message)]
    ELSE Reject(z, warn)

WrapError(z, err) == Reject(z, NewError(Str(err.message)))

\* archive.on('error', reject)
OnError(z, err) == Reject(z, err)

\* what the archiver and the output stream have emitted so far, in order
Emit(z, event, payload) ==
    [z EXCEPT !.emitted = Append(@, [event |-> event, payload |-> payload])]

\* an event reaches its handler, when one is registered
Deliver(z, event, handled) ==
    IF event \in z.handlers THEN handled ELSE [z EXCEPT !.unhandled = TRUE]

Warnings ==
    { [code |-> "ENOENT", message |-> "do not do that plz"],
      [code |-> "EFATAL", message |-> "entry not supported"] }

ArchiverErrors == { [code |-> "borked", message |-> "it borked"] }

\* how many statements of the executor have run when the archiver has its
\* destination, and when it has been finalized
StepsDone(stmt) == CHOOSE i \in 1..Len(ExecutorSteps) : ExecutorSteps[i] = stmt

-----------------------------------------------------------------------------
(* Initial state and the actions on the client *)

NoCall ==
    [op |-> "none", kind |-> "none", pc |-> "idle", self |-> NoClient,
     args |-> Undefined, page |-> Undefined, chain |-> <<>>,
     requests |-> <<>>, sentAt |-> <<>>, responses |-> <<>>, outcome |-> Pending]

Init ==
    /\ client = NoClient
    /\ ctor = NoCtor
    /\ prevSign = NoSign
    /\ lastSign = NoSign
    /\ call = NoCall
    /\ caInput = Undefined
    /\ caTrace = <<>>
    /\ zip = NoZip
    /\ peer = NoCall

\* new VeracodeClient(apiId, apiKey, returnXml)
Construct(apiId, apiKey, returnXml) ==
    /\ ctor' = ConstructResult(apiId, apiKey, returnXml)
    /\ client' = IF ctor'.threw THEN client ELSE ctor'.object
    /\ UNCHANGED <<prevSign, lastSign, call, caInput, caTrace, zip, peer>>

\* client.calculateAuthorizationHeader(urlString, httpMethod); the model
\* follows two invocations, prevSign and then lastSign
Sign(urlString, httpMethod) ==
    /\ client # NoClient
    /\ prevSign = NoSign
    /\ \E now \in Timestamps, nonce \in NonceSamples(client.nonceSize) :
          lastSign' = SignRecord(client, urlString, httpMethod, now, nonce)
    /\ prevSign' = lastSign
    /\ UNCHANGED <<client, ctor, call, caInput, caTrace, zip, peer>>

\* a caller starts op on the client: the synchronous part of _xmlRequest up
\* to `await request(...)`; the model follows one call
StartXml(op, args, options) ==
    /\ client # NoClient
    /\ call.pc = "idle"
    /\ \E now \in Timestamps, nonce \in NonceSamples(client.nonceSize) :
          call' = [op |-> op, kind |-> "xml", pc |-> "awaiting", self |-> client,
                   args |-> args, page |-> Undefined, chain |-> <<>>,
                   requests |-> <<XmlRequestArg(client, options, now, nonce)>>,
                   sentAt |-> <<now>>,
                   responses |-> <<>>, outcome |-> Pending]
    /\ UNCHANGED <<client, ctor, prevSign, lastSign, caInput, caTrace, zip, peer>>

\* client._xmlRequest(options)
XmlRequest == \E options \in DirectXmlOptions : StartXml("_xmlRequest", options, options)

\* client.getAppList(), client.detailedReport(options), ...
XmlWrapperCall ==
    \E w \in DOMAIN XmlWrappers, options \in CallerOptions :
        StartXml(w, options, WrapperOptions(client, w, options))

\* request() resolves with an XML body: _xmlRequest runs to its end, and the
\* API function awaiting it runs to its end
XmlResponse ==
    /\ call.kind = "xml" /\ call.pc = "awaiting"
    /\ \E xmlResponse \in XmlBodies \cup ListBodies :
          call' = [call EXCEPT
                     !.pc = "done",
                     !.responses = Append(@, Fulfilled(xmlResponse)),
                     !.outcome = IF call.op = "_xmlRequest"
                                 THEN XmlOutcome(xmlResponse)
                                 ELSE WrapperOutcome(call.op, XmlOutcome(xmlResponse))]
    /\ UNCHANGED <<client, ctor, prevSign, lastSign, caInput, caTrace, zip, peer>>

TransportFailureWrapped ==
    /\ call.pc = "awaiting"
    /\ \E e \in TransportErrors :
          call' = [call EXCEPT !.pc = "done",
                               !.responses = Append(@, Rejected(e)),
                               !.outcome = Rejected(NewError(Str(e.message)))]
    /\ UNCHANGED <<client, ctor, prevSign, lastSign, caInput, caTrace, zip, peer>>

\* request() rejects: the await throws, in _xmlRequest and in its caller
TransportFailure ==
    /\ call.pc = "awaiting"
    /\ \E e \in TransportErrors :
          call' = [call EXCEPT !.pc = "done",
                               !.responses = Append(@, Rejected(e)),
                               !.outcome = Rejected(e)]
    /\ UNCHANGED <<client, ctor, prevSign, lastSign, caInput, caTrace, zip, peer>>

StartRestPrefetching(op, options, page) ==
    /\ client # NoClient
    /\ call.pc = "idle"
    /\ \E now \in Timestamps, nonce \in NonceSamples(client.nonceSize),
          chain \in Chains :
          LET first == RestRequestArg(client, options, now, nonce) IN
          call' = [op |-> op, kind |-> "rest", pc |-> "awaiting", self |-> client,
                   args |-> options, page |-> page, chain |-> chain,
                   requests |-> <<first, first>>,
                   sentAt |-> <<now, now>>,
                   responses |-> <<>>, outcome |-> Pending]
    /\ UNCHANGED <<client, ctor, prevSign, lastSign, caInput, caTrace, zip, peer>>

\* a caller starts a REST call: the synchronous part of _restRequest up to
\* `await request(...)`; its second argument is not read
StartRest(op, options, page) ==
    /\ client # NoClient
    /\ call.pc = "idle"
    /\ \E now \in Timestamps, nonce \in NonceSamples(client.nonceSize),
          chain \in Chains :
          call' = [op |-> op, kind |-> "rest", pc |-> "awaiting", self |-> client,
                   args |-> options, page |-> page, chain |-> chain,
                   requests |-> <<RestRequestArg(client, options, now, nonce)>>,
                   sentAt |-> <<now>>,
                   responses |-> <<>>, outcome |-> Pending]
    /\ UNCHANGED <<client, ctor, prevSign, lastSign, caInput, caTrace, zip, peer>>

\* client._restRequest({endPoint: 'applications'}, page), and with a query
\* property in the options
RestRequest ==
    \E page \in PageArgs, query \in RestQueries :
        StartRest("_restRequest", RestOptions(EndPoint("applications"), query), page)

\* client.getApplications(), client.getFindings(applicationGuid)
RestWrapperCall ==
    \E w \in DOMAIN RestWrappers :
        StartRest(w, Options(EndPoint(RestWrappers[w].endPoint),
                             Undefined, Undefined, Undefined),
                  Undefined)

\* request() resolves with the text of the page served at the requested URL,
\* or with text that is not JSON: _restRequest runs to its end, and the API
\* function awaiting it runs to its end
RestResponse ==
    /\ call.kind = "rest" /\ call.pc = "awaiting"
    /\ \E response \in { JsonText(PageValue(call.chain, Len(call.requests),
                                             RestResource(call.op),
                                             call.requests[1].uri)),
                          MalformedJson } :
          call' = [call EXCEPT
                     !.pc = "done",
                     !.responses = Append(@, Fulfilled(response)),
                     !.outcome = IF call.op = "_restRequest"
                                 THEN RestOutcome(response)
                                 ELSE RestWrapperOutcome(call.op, RestOutcome(response))]
    /\ UNCHANGED <<client, ctor, prevSign, lastSign, caInput, caTrace, zip, peer>>

ReturnXmlArgs == { Undefined, [type |-> "boolean", val |-> TRUE],
                   [type |-> "boolean", val |-> FALSE] }

\* new VeracodeClient(...) with any arguments, until one succeeds: the model
\* follows the first client constructed
ConstructAny ==
    /\ client = NoClient
    /\ \E apiId \in ApiIds, apiKey \in ApiKeys, returnXml \in ReturnXmlArgs :
        Construct(apiId, apiKey, returnXml)

Next ==
    \/ ConstructAny
    \/ XmlRequest \/ XmlWrapperCall \/ XmlResponse
    \/ RestRequest \/ RestWrapperCall \/ RestResponse
    \/ TransportFailure

Spec == Init /\ [][Next]_vars

\* the longest array handed to controlledArray, and how often its result is
\* handed to it again
MaxArrayLen == 3
MaxApply == 2

Null == [type |-> "null"]

\* what an array handed to controlledArray holds
ArrayElements ==
    { Obj("_attributes" :> Obj("app_id" :> Str("1"))),
      Obj("_attributes" :> Obj("app_id" :> Str("2"))),
      Str("text"),
      Arr(<<Obj(NoProps)>>) }

\* the arguments of controlledArray: undefined, single values, arrays
ArrayInputs ==
    { Undefined, Null } \cup ArrayElements
    \cup { Arr(items) : items \in UNION { [1..n -> ArrayElements] : n \in 0..MaxArrayLen } }

\* a caller picks the value it will hand to controlledArray
ChooseArrayInput ==
    /\ caInput = Undefined /\ caTrace = <<>>
    /\ caInput' \in ArrayInputs \ {Undefined}
    /\ UNCHANGED <<client, ctor, prevSign, lastSign, call, caTrace, zip, peer>>

\* client.controlledArray(a), a the chosen value or the previous result
ApplyControlledArray ==
    /\ Len(caTrace) < MaxApply
    /\ caTrace' = Append(caTrace,
                         controlledArray(IF caTrace = <<>> THEN caInput
                                         ELSE caTrace[Len(caTrace)]))
    /\ UNCHANGED <<client, ctor, prevSign, lastSign, call, caInput, zip, peer>>

NextArray == ChooseArrayInput \/ ApplyControlledArray

SpecArray == Init /\ [][NextArray]_vars

\* client.createZipArchive(directory, zipName, ignore): the next statement of
\* the promise executor
ZipExecutor ==
    /\ zip.step < Len(ExecutorSteps)
    /\ zip' = Execute(zip, ExecutorSteps[zip.step + 1])
    /\ UNCHANGED <<client, ctor, prevSign, lastSign, call, caInput, caTrace, peer>>

\* the archiver writes to its destination
ArchiveData ==
    /\ zip.step >= StepsDone("glob")
    /\ ~zip.closed
    /\ zip.pointer < MaxBytes
    /\ zip' = [zip EXCEPT !.pointer = @ + 1]
    /\ UNCHANGED <<client, ctor, prevSign, lastSign, call, caInput, caTrace, peer>>

\* the archiver emits 'warning'
ArchiveWarning ==
    /\ zip.step >= StepsDone("pipe")
    /\ zip.events < MaxEvents
    /\ \E warn \in Warnings :
          zip' = [Emit(Deliver(zip, "warning", OnWarning(zip, warn)), "warning", warn)
                    EXCEPT !.events = @ + 1]
    /\ UNCHANGED <<client, ctor, prevSign, lastSign, call, caInput, caTrace, peer>>

\* the archiver emits 'error'
ArchiveError ==
    /\ zip.step >= StepsDone("pipe")
    /\ zip.events < MaxEvents
    /\ \E err \in ArchiverErrors :
          zip' = [Emit(Deliver(zip, "error", OnError(zip, err)), "error", err)
                    EXCEPT !.events = @ + 1]
    /\ UNCHANGED <<client, ctor, prevSign, lastSign, call, caInput, caTrace, peer>>

\* the output stream emits 'close', once, after the archive was finalized
OutputClose ==
    /\ zip.step >= StepsDone("finalize")
    /\ ~zip.closed
    /\ zip' = [Emit(Deliver(zip, "close", OnClose(zip)), "close", Undefined)
                 EXCEPT !.closed = TRUE]
    /\ UNCHANGED <<client, ctor, prevSign, lastSign, call, caInput, caTrace, peer>>

NextZip == ZipExecutor \/ ArchiveData \/ ArchiveWarning \/ ArchiveError \/ OutputClose

SpecZip == Init /\ [][NextZip]_vars

\* the credentials the signing specification constructs clients with
SignCredentials ==
    { <<Str("fake"), Chars(<<"A", "b", "1", "2">>)>>,
      <<Str("fake2"), Chars(<<"A", "b", "1", "2">>)>>,
      <<Str("fake"), Chars(<<"a", "1", "s", "o", "-", "f", "a", "k", "e">>)>> }

ConstructSigner == \E c \in SignCredentials : Construct(c[1], c[2], Undefined)

SignAny == \E u \in UrlStrings, m \in HttpMethods : Sign(u, m)

NextSign == ConstructSigner \/ SignAny

SpecSign == Init /\ [][NextSign]_vars

-----------------------------------------------------------------------------
(* Claims about the authorization header (checked under SpecSign) *)

\* the header the documentation prescribes for the recorded inputs of a call:
\* "VERACODE-HMAC-SHA-256 id=<id>,ts=<ts>,nonce=<hex(nonce)>,sig=<hex(sig)>"
\* with sig the four-step HMAC-SHA-256 chain over the call's canonical data
ReferenceHeader(r) ==
    LET secret == [hex |-> HexPairs(r.apiKey.chars)]
        kNonce == HmacDigest("sha256", secret, [hex |-> BytesToHex(r.nonce)])
        kDate == HmacDigest("sha256", kNonce, Str(ToString(r.now)))
        kSig == HmacDigest("sha256", kDate, Str("vcode_request_version_1"))
        signature == HmacDigest("sha256", kSig, Str(r.data))
    IN  "VERACODE-HMAC-SHA-256 id=" \o r.apiId \o ",ts=" \o ToString(r.now)
        \o ",nonce=" \o BytesToHex(r.nonce) \o ",sig=" \o signature.hex

SameSignInputs(a, b) ==
    /\ a.apiId = b.apiId /\ a.apiKey = b.apiKey
    /\ a.urlString = b.urlString /\ a.httpMethod = b.httpMethod
    /\ a.now = b.now /\ a.nonce = b.nonce

\* C8: for fixed apiId, secret, URL, method, timestamp and nonce the header is
\* the same on every invocation and equals the prescribed format, whose sig is
\* HMAC(HMAC(HMAC(HMAC(hexDecode(secret), nonce), timestamp),
\* "vcode_request_version_1"), canonicalData)
C8_HeaderIsReference ==
    /\ lastSign.signed => lastSign.header = ReferenceHeader(lastSign)
    /\ prevSign.signed => prevSign.header = ReferenceHeader(prevSign)
    /\ (prevSign.signed /\ lastSign.signed /\ SameSignInputs(prevSign, lastSign))
          => prevSign.header = lastSign.header

\* two invocations with identical inputs, the secret ending in non-hex text
C8_Witness ==
    /\ prevSign.signed /\ lastSign.signed
    /\ SameSignInputs(prevSign, lastSign)
    /\ lastSign.apiKey = Chars(<<"a", "1", "s", "o", "-", "f", "a", "k", "e">>)
    /\ lastSign.urlString.search # ""

\* the parts of a URL the claim counts as "the URL": url.host, path and query
UrlKey(urlString) ==
    LET url == NewURL(urlString) IN <<UrlHost(url), url.pathname, url.search>>

DifferingInputs(a, b) ==
    { k \in {"apiId", "url", "method", "timestamp", "nonce"} :
        CASE k = "apiId"     -> a.apiId # b.apiId
          [] k = "url"       -> UrlKey(a.urlString) # UrlKey(b.urlString)
          [] k = "method"    -> a.httpMethod # b.httpMethod
          [] k = "timestamp" -> a.now # b.now
          [] OTHER           -> a.nonce # b.nonce }

\* C9: two signing invocations that differ in exactly one of apiId, URL (host,
\* path or query), method, timestamp or nonce, and agree on everything else,
\* have different sig components
C9_SigSensitive ==
    (/\ prevSign.signed /\ lastSign.signed
     /\ prevSign.apiKey = lastSign.apiKey
     /\ NewURL(prevSign.urlString).protocol = NewURL(lastSign.urlString).protocol
     /\ Cardinality(DifferingInputs(prevSign, lastSign)) = 1)
        => prevSign.sig # lastSign.sig

-----------------------------------------------------------------------------
(* Claims about construction and the request paths (checked under Spec) *)

ArgMissing(v) == v = Undefined \/ v = Str("") \/ v = Chars(<<>>)

\* C1: constructing with the API id missing, the API key missing or both
\* (undefined or empty string) throws "... must be defined" and yields no
\* client; with both non-empty it yields a client holding them
C1_ConstructorGuard ==
    ctor.called =>
        IF ArgMissing(ctor.apiId) \/ ArgMissing(ctor.apiKey)
        THEN /\ ctor.threw
             /\ ctor.message = "Both Veracode API ID and key must be defined"
             /\ ctor.object = NoClient
        ELSE /\ ~ctor.threw
             /\ ctor.object # NoClient
             /\ ctor.object.apiId = ctor.apiId.val
             /\ ctor.object.apiKey = ctor.apiKey
             /\ client = ctor.object

\* only the key is missing (an empty string), and the constructor threw
C1_Witness ==
    /\ ctor.called /\ ctor.threw
    /\ ctor.apiId = Str("fake") /\ ctor.apiKey = Chars(<<>>)
    /\ client = NoClient

\* the XML call has ended and request() had resolved
XmlAnswered ==
    /\ call.kind = "xml" /\ call.pc = "done"
    /\ call.responses[1].state = "fulfilled"

\* the body is <error>X</error>
IsErrorBody(body) ==
    /\ Len(body) = 3
    /\ body[1].k = "open" /\ body[1].name = "error"
    /\ body[2].k = "text"

\* C2: an XML request (through _xmlRequest or any XML API function) answered
\* with a body whose top-level element is `error` with text X fails with an
\* error whose message is exactly X; nothing parsed is returned
C2_ErrorElementThrows ==
    (XmlAnswered /\ IsErrorBody(call.responses[1].value))
        => /\ call.outcome.state = "rejected"
           /\ call.outcome.error.name = "Error"
           /\ call.outcome.error.message = call.responses[1].value[2].text

\* detailedReport answered <error>No report available.</error>
C2_Witness ==
    /\ XmlAnswered /\ call.op = "detailedReport"
    /\ IsErrorBody(call.responses[1].value)
    /\ call.outcome = Rejected([name |-> "Error", message |-> "No report available."])

\* the REST call has ended and every request() resolved with JSON
RestAnswered ==
    /\ call.kind = "rest" /\ call.pc = "done"
    /\ \A i \in 1..Len(call.responses) :
          call.responses[i].state = "fulfilled" /\ call.responses[i].value.json

RECURSIVE AllItems(_)
AllItems(chain) ==
    IF chain = <<>> THEN <<>> ELSE Head(chain).items \o AllItems(Tail(chain))

PagingEnabled == call.page # [type |-> "boolean", val |-> FALSE]

\* C3: with paging enabled a REST fetch over a chain of n pages issues exactly
\* n GET requests, the first to apiBase + endpoint and each later one to the
\* previous page's next href, and returns all pages' items in order
C3_PagesThroughChain ==
    (RestAnswered /\ call.op = "_restRequest" /\ PagingEnabled)
        => /\ Len(call.requests) = Len(call.chain)
           /\ \A k \in 1..Len(call.requests) :
                 /\ call.requests[k].method = "GET"
                 /\ call.requests[k].uri = PageUrl(call.requests[1].uri, k)
           /\ call.outcome = Fulfilled(Arr(AllItems(call.chain)))

\* C4: with paging disabled a REST fetch issues exactly one request and
\* returns the first page's items as a sequence, next link or not
C4_PagingDisabled ==
    (RestAnswered /\ call.op = "_restRequest" /\ ~PagingEnabled)
        => /\ Len(call.requests) = 1
           /\ call.outcome = Fulfilled(Arr(call.chain[1].items))

\* C5: a client constructed with returnXml = true returns the response text of
\* an XML request unparsed and unchanged; one constructed without the flag, or
\* with false, returns the parsed tree
C5_ReturnXml ==
    (XmlAnswered /\ call.op = "_xmlRequest" /\ ctor.called /\ ctor.object = call.self
       /\ call.responses[1].value[1].name # "error")
        => IF ctor.returnXml = [type |-> "boolean", val |-> TRUE]
           THEN /\ call.outcome.state = "fulfilled"
                /\ call.outcome.value.type = "string"
                /\ call.outcome.value.xml = call.responses[1].value
           ELSE call.outcome = Fulfilled(xml2js(call.responses[1].value))

\* C7: a REST response without an _embedded envelope is no error and gives the
\* empty sequence, from _restRequest and from getApplications / getFindings
C7_NoEnvelopeIsEmpty ==
    (RestAnswered /\ Len(call.chain) = 1 /\ ~call.chain[1].embedded)
        => call.outcome = Fulfilled(Arr(<<>>))

-----------------------------------------------------------------------------
(* Claims about controlledArray (checked under SpecArray) *)

\* C6: controlledArray maps undefined to the empty sequence, a single value v
\* to <<v>> and a sequence to a sequence of the same elements in the same
\* order; applying it to its own result changes nothing
C6_ControlledArray ==
    /\ Len(caTrace) >= 1 =>
          /\ caTrace[1].type = "array"
          /\ caInput = Undefined => caTrace[1].items = <<>>
          /\ caInput.type = "array" => caTrace[1].items = caInput.items
          /\ caInput.type \notin {"undefined", "array"} => caTrace[1].items = <<caInput>>
    /\ Len(caTrace) >= 2 => caTrace[2] = caTrace[1]

\* an array of three elements, one of them an array itself, went through
\* controlledArray twice
C6_Witness ==
    /\ Len(caTrace) = 2
    /\ caInput.type = "array" /\ Len(caInput.items) = 3
    /\ caInput.items[2].type = "array"
    /\ caTrace[2].items = caInput.items

-----------------------------------------------------------------------------
(* Claims about createZipArchive (checked under SpecZip) *)

\* C10: createZipArchive resolves when the output stream reports close, with
\* the archive's size as the archiver reports it then, and not before: a
\* resolved promise means the stream has closed and holds that size, and after
\* the close the promise is no longer pending
C10_ResolvesOnClose ==
    /\ zip.promise.state = "fulfilled" => (zip.closed /\ zip.promise.value = zip.pointer)
    /\ zip.closed => zip.promise.state # "pending"

\* the stream closed after three bytes and a logged warning; the promise holds 3
C10_Witness ==
    /\ zip.closed /\ zip.pointer = 3 /\ zip.log # <<>>
    /\ zip.promise = Fulfilled(3)

-----------------------------------------------------------------------------
(* createZipArchive: warnings and errors *)

\* an emitted event that settles a pending promise
Settling(e) ==
    \/ e.event = "close"
    \/ e.event = "error"
    \/ e.event = "warning" /\ e.payload.code # "ENOENT"

\* the first settling event emitted, 0 when there is none
FirstSettling ==
    IF \E i \in 1..Len(zip.emitted) : Settling(zip.emitted[i])
    THEN CHOOSE i \in 1..Len(zip.emitted) :
            /\ Settling(zip.emitted[i])
            /\ \A j \in 1..(i - 1) : ~Settling(zip.emitted[j])
    ELSE 0

\* C11: a warning whose code is not ENOENT, or an archiver error, reaching the
\* operation while it is unsettled rejects it with exactly the emitted payload
\* (same code and message), and that payload stays the rejection reason
C11_FatalRejectsWithPayload ==
    (FirstSettling # 0 /\ zip.emitted[FirstSettling].event # "close")
        => zip.promise = Rejected(zip.emitted[FirstSettling].payload)

\* a fatal warning, and an archiver error after an ENOENT warning
C11_Witness ==
    /\ Len(zip.emitted) = 2
    /\ zip.emitted[1].event = "warning" /\ zip.emitted[1].payload.code = "ENOENT"
    /\ zip.emitted[2].event = "error"
    /\ zip.promise = Rejected([code |-> "borked", message |-> "it borked"])

\* the messages of the ENOENT warnings emitted, in order
RECURSIVE EnoentLog(_)
EnoentLog(emitted) ==
    IF emitted = <<>> THEN <<>>
    ELSE LET e == Head(emitted) IN
         (IF e.event = "warning" /\ e.payload.code = "ENOENT"
          THEN <<"Warning: " \o e.payload.message>> ELSE <<>>)
         \o EnoentLog(Tail(emitted))

\* C12: every ENOENT warning is logged as "Warning: <message>" and settles
\* nothing: while only ENOENT warnings were emitted the operation is pending,
\* and when the output stream then closes it resolves to the archive size
C12_EnoentIsLogged ==
    /\ zip.log = EnoentLog(zip.emitted)
    /\ FirstSettling = 0 => zip.promise = Pending
    /\ (FirstSettling # 0 /\ zip.emitted[FirstSettling].event = "close")
          => zip.promise = Fulfilled(zip.pointer)

\* two ENOENT warnings and then the close
C12_Witness ==
    /\ Len(zip.emitted) = 3 /\ FirstSettling = 3
    /\ zip.emitted[1].payload.code = "ENOENT" /\ zip.emitted[2].payload.code = "ENOENT"
    /\ Len(zip.log) = 2 /\ zip.pointer = 2
    /\ zip.promise = Fulfilled(2)

-----------------------------------------------------------------------------
(* The requests sent (checked under Spec) *)

\* the request carries form data: a form or a multipart formData
FormPresent(req) == req.form # Undefined \/ req.formData # Undefined

\* the header is one that signing `uri` and `method` for this client gives,
\* at some time and with some nonce
SignedFor(self, header, uri, method) ==
    \E now \in Timestamps, nonce \in NonceSamples(self.nonceSize) :
        header = calculateAuthorizationHeader(self, uri, method, now, nonce)

\* C13: an XML request is sent with POST when it carries form data and with
\* GET otherwise, and its Authorization header signs the method it is sent
\* with (and not the other one)
C13_XmlMethod ==
    (call.kind = "xml" /\ call.pc # "idle")
        => \A k \in 1..Len(call.requests) :
              LET req == call.requests[k] IN
              /\ req.method = (IF FormPresent(req) THEN "POST" ELSE "GET")
              /\ SignedFor(call.self, req.headers.Authorization, req.uri, req.method)
              /\ \A other \in HttpMethods \ {req.method} :
                    ~SignedFor(call.self, req.headers.Authorization, req.uri, other)

\* uploadFile sent with multipart form data, by POST
C13_Witness ==
    /\ call.kind = "xml" /\ call.op = "uploadFile" /\ call.pc = "done"
    /\ call.requests[1].formData # Undefined
    /\ call.requests[1].method = "POST"

C15_RestQuery ==
    (call.kind = "rest" /\ call.op = "_restRequest" /\ call.pc # "idle")
        => LET req == call.requests[1]
               base == call.self.apiBaseRest
               search == IF call.args.query = Undefined THEN ""
                         ELSE "?" \o call.args.query.val
           IN  /\ UrlHref(req.uri)
                     = UrlHref(NewURL(base)) \o call.args.endPoint.path \o search
               /\ SignedFor(call.self, req.headers.Authorization,
                            [NewURL(base) EXCEPT
                                !.pathname = @ \o call.args.endPoint.path,
                                !.search = search],
                            "GET")

-----------------------------------------------------------------------------
(* Order and failure of the requests of one call (checked under Spec) *)

\* the requests of the call that have no response yet
InFlight == Len(call.requests) - Len(call.responses)

\* the next href a response carries, Undefined when it has none
NextHref(response) ==
    IF response.state = "fulfilled" /\ response.value.json
    THEN Get(Get(Get(response.value.value, "_links"), "next"), "href")
    ELSE Undefined

ReturnedItems(v) ==
    IF v.type = "array" THEN v.items
    ELSE IF v.type = "object"
    THEN LET held == { r \in {"applications", "findings"} :
                         Get(v, r) # Undefined /\ Get(v, r).type = "array" }
         IN  IF held = {} THEN <<>> ELSE Get(v, CHOOSE r \in held : TRUE).items
    ELSE <<>>

IsProperPrefix(a, b) == Len(a) < Len(b) /\ a = SubSeq(b, 1, Len(a))

\* C17: a REST fetch one of whose page fetches fails (transport or JSON parse)
\* fails with that error and gives the caller no items; a fetch with paging
\* enabled never succeeds with a proper prefix of the collection
C17_NoPartialResult ==
    (call.kind = "rest" /\ call.pc = "done" /\ PagingEnabled)
        => /\ \A k \in 1..Len(call.responses) :
                 LET r == call.responses[k] IN
                 /\ r.state = "rejected" => call.outcome = r
                 /\ (r.state = "fulfilled" /\ ~r.value.json)
                       => call.outcome = JsonParse(r.value)
           /\ call.outcome.state = "fulfilled"
                 => ~IsProperPrefix(ReturnedItems(call.outcome.value),
                                    AllItems(call.chain))

\* C18: when the transport call of a request fails, the operation fails with
\* that very error, nothing is parsed, and no further request is issued: the
\* request was attempted once
C18_TransportErrorUnchanged ==
    (call.pc = "done" /\ call.responses[Len(call.responses)].state = "rejected")
        => /\ call.outcome = call.responses[Len(call.responses)]
           /\ Len(call.requests) = 1 /\ Len(call.responses) = 1

\* detailedReport fails with the transport's error
C18_Witness ==
    /\ call.kind = "xml" /\ call.op = "detailedReport" /\ call.pc = "done"
    /\ call.responses = <<Rejected([name |-> "RequestError",
                                    message |-> "connect ECONNREFUSED"])>>
    /\ call.outcome = call.responses[1]

-----------------------------------------------------------------------------
(* The XML API functions that return lists (checked under Spec) *)

\* what the parser makes of the i-th child element on its own
ParsedChild(child, i) == Get(xml2js(<<ChildTag(child, i)>>), child)

\* C19: getAppList, getSandboxList, getBuildList, getAppBuilds and deleteApp,
\* answered with their container element holding n child elements, return a
\* sequence: empty for n = 0, the one element for n = 1, the elements in
\* document order for n > 1; never a bare object or undefined
C19_ListWrappersReturnSequences ==
    (XmlAnswered /\ call.op \in ListWrappers)
        => \A n \in 0..MaxChildren :
              call.responses[1].value
                  = ListBody(XmlWrappers[call.op].container,
                             XmlWrappers[call.op].child, n)
              => call.outcome
                    = Fulfilled(Arr([i \in 1..n |->
                                       ParsedChild(XmlWrappers[call.op].child, i)]))

\* getSandboxList answered with exactly one sandbox
C19_Witness ==
    /\ XmlAnswered /\ call.op = "getSandboxList"
    /\ call.responses[1].value = ListBody("sandboxlist", "sandbox", 1)
    /\ call.outcome.state = "fulfilled"
    /\ Len(call.outcome.value.items) = 1

-----------------------------------------------------------------------------
(* The canonical data (checked under SpecSign) *)

\* "id=<apiId>&host=<url.host>&url=<path+query>&method=<METHOD>"
HostCanonicalData(r) ==
    LET url == NewURL(r.urlString) IN
    "id=" \o r.apiId \o "&host=" \o UrlHost(url) \o "&url="
    \o url.pathname \o url.search \o "&method=" \o r.httpMethod

\* C20: the canonical data signed is id, host, url and method with url.host as
\* the host, port included when the URL carries a non-default one, and the
\* header equals the reference computed from url.host, for every URL
C20_SignsUrlHost ==
    \A r \in {prevSign, lastSign} :
        r.signed => /\ r.data = HostCanonicalData(r)
                    /\ r.header = ReferenceHeader([r EXCEPT !.data = HostCanonicalData(r)])

-----------------------------------------------------------------------------
(* createZipArchive: settling and handler registration (checked under SpecZip) *)

\* the last event emitted in a step, when the step emitted one
EmittedIn(before, after) ==
    IF Len(after.emitted) = Len(before.emitted) + 1
    THEN {after.emitted[Len(after.emitted)]} ELSE {}

\* C22: the promise of createZipArchive settles at most once and the first
\* settling event wins: a settled promise never changes, whatever close,
\* warning or error comes later, and a pending promise is settled only by a
\* step that emits a close, a fatal warning or an error
C22_SettlesOnce ==
    [][/\ zip.promise.state # "pending" => zip'.promise = zip.promise
       /\ (zip.promise.state = "pending" /\ zip'.promise.state # "pending")
             => \E e \in EmittedIn(zip, zip') : Settling(e)]_vars

\* a fatal warning rejected the operation and the output stream closed later
C22_Witness ==
    /\ Len(zip.emitted) = 2
    /\ zip.emitted[1].event = "warning" /\ zip.emitted[1].payload.code = "EFATAL"
    /\ zip.emitted[2].event = "close"
    /\ zip.closed
    /\ zip.promise = Rejected(zip.emitted[1].payload)

\* C23: the close, warning and error handlers are registered before pipe,
\* glob and finalize run, so every event archiving causes reaches a
\* registered handler
C23_HandlersBeforeArchiving ==
    /\ \A stmt \in {"pipe", "glob", "finalize"} :
          zip.step >= StepsDone(stmt) => zip.handlers = {"close", "warning", "error"}
    /\ ~zip.unhandled
    /\ \A i \in 1..Len(zip.emitted) : zip.emitted[i].event \in zip.handlers

\* a warning, an error and the close were all emitted and handled
C23_Witness ==
    /\ zip.step = Len(ExecutorSteps)
    /\ { zip.emitted[i].event : i \in 1..Len(zip.emitted) } = {"close", "warning", "error"}
    /\ ~zip.unhandled

-----------------------------------------------------------------------------
(* The method of the XML API functions (checked under Spec) *)

\* C24: the method of an XML API function depends on whether it passes a form
\* or formData, not on what the form holds: every function passing one sends
\* POST, even with every field undefined, and only getAppList, which passes
\* neither, sends GET
C24_MethodIgnoresFormContents ==
    (call.kind = "xml" /\ call.pc # "idle" /\ call.op \in DOMAIN XmlWrappers)
        => LET req == call.requests[1] IN
           IF call.op = "getAppList"
           THEN req.form = Undefined /\ req.formData = Undefined /\ req.method = "GET"
           ELSE (req.form # Undefined \/ req.formData # Undefined) /\ req.method = "POST"

\* getAppBuilds called with no options: a form of undefined fields, by POST
C24_Witness ==
    /\ call.kind = "xml" /\ call.op = "getAppBuilds" /\ call.pc # "idle"
    /\ call.args = Obj(NoProps)
    /\ call.requests[1].form.type = "object"
    /\ \A f \in DOMAIN call.requests[1].form.props :
          call.requests[1].form.props[f] = Undefined
    /\ call.requests[1].method = "POST"

-----------------------------------------------------------------------------
(* Concurrent calls on one client.  An async function runs without         *)
(* interruption up to its `await request(...)` and again from the response *)
(* to its end, so two calls interleave at these two points.                *)

\* the XML calls made alongside each other: operation, caller's argument and
\* the options _xmlRequest receives
ConcXmlCalls(self) ==
    LET direct == Options(EndPoint("mytest.do"), Undefined, Undefined, Undefined)
        args == Obj("appId" :> Str("1"))
    IN  { [op |-> "_xmlRequest", args |-> direct, options |-> direct],
          [op |-> "getSandboxList", args |-> args,
           options |-> WrapperOptions(self, "getSandboxList", args)] }

ConcBodies ==
    { <<OpenTag("error", NoAttrs), Text("No report available."), CloseTag("error")>>,
      ListBody("sandboxlist", "sandbox", 1) }

\* a call on `self` as it stands once its request is issued
StartedCalls(self) ==
    { [op |-> c.op, kind |-> "xml", pc |-> "awaiting", self |-> self,
       args |-> c.args, page |-> Undefined, chain |-> <<>>,
       requests |-> <<XmlRequestArg(self, c.options, now, nonce)>>,
       sentAt |-> <<now>>, responses |-> <<>>, outcome |-> Pending] :
        c \in ConcXmlCalls(self), now \in Timestamps,
        nonce \in NonceSamples(self.nonceSize) }
    \cup
    { [op |-> "getApplications", kind |-> "rest", pc |-> "awaiting", self |-> self,
       args |-> Options(EndPoint(RestWrappers["getApplications"].endPoint),
                        Undefined, Undefined, Undefined),
       page |-> Undefined, chain |-> <<PageOf(<<Item("a")>>)>>,
       requests |-> <<RestRequestArg(self,
                         Options(EndPoint(RestWrappers["getApplications"].endPoint),
                                 Undefined, Undefined, Undefined), now, nonce)>>,
       sentAt |-> <<now>>, responses |-> <<>>, outcome |-> Pending] :
        now \in Timestamps, nonce \in NonceSamples(self.nonceSize) }

\* an awaiting call as it stands once request() has settled and the function
\* has run to its end
SettledCalls(c) ==
    { [c EXCEPT !.pc = "done", !.responses = Append(@, Rejected(e)),
                !.outcome = Rejected(e)] : e \in TransportErrors }
    \cup
    (IF c.kind = "xml"
     THEN { [c EXCEPT !.pc = "done", !.responses = Append(@, Fulfilled(b)),
                      !.outcome = IF c.op = "_xmlRequest" THEN XmlOutcome(b)
                                  ELSE WrapperOutcome(c.op, XmlOutcome(b))] :
              b \in ConcBodies }
     ELSE { [c EXCEPT !.pc = "done", !.responses = Append(@, Fulfilled(r)),
                      !.outcome = RestWrapperOutcome(c.op, RestOutcome(r))] :
              r \in { JsonText(PageValue(c.chain, 1, RestResource(c.op),
                                         c.requests[1].uri)),
                      MalformedJson } })

ConcConstruct ==
    /\ client = NoClient
    /\ Construct(Str("fake"), Chars(<<"A", "b", "1", "2">>), Undefined)

\* the first caller starts its call
ConcStartCall ==
    /\ client # NoClient /\ call.pc = "idle"
    /\ call' \in StartedCalls(client)
    /\ UNCHANGED <<client, ctor, prevSign, lastSign, caInput, caTrace, zip, peer>>

ConcStartPeerReusingHeader ==
    /\ client # NoClient /\ peer.pc = "idle"
    /\ \E c \in StartedCalls(client) :
          peer' = IF call.pc = "idle" THEN c
                  ELSE [c EXCEPT !.requests[1].headers = call.requests[1].headers]
    /\ UNCHANGED <<client, ctor, prevSign, lastSign, call, caInput, caTrace, zip>>

\* the second caller starts its call
ConcStartPeer ==
    /\ client # NoClient /\ peer.pc = "idle"
    /\ peer' \in StartedCalls(client)
    /\ UNCHANGED <<client, ctor, prevSign, lastSign, call, caInput, caTrace, zip>>

\* the request of the first call settles
ConcSettleCall ==
    /\ call.pc = "awaiting"
    /\ call' \in SettledCalls(call)
    /\ UNCHANGED <<client, ctor, prevSign, lastSign, caInput, caTrace, zip, peer>>

\* the request of the second call settles
ConcSettlePeer ==
    /\ peer.pc = "awaiting"
    /\ peer' \in SettledCalls(peer)
    /\ UNCHANGED <<client, ctor, prevSign, lastSign, call, caInput, caTrace, zip>>

\* a third caller computes an Authorization header itself, at any point
ConcSign ==
    /\ client # NoClient /\ lastSign = NoSign
    /\ \E now \in Timestamps, nonce \in NonceSamples(client.nonceSize) :
          lastSign' = SignRecord(client,
                                 RawURL("https:", "api.veracode.com", "",
                                        "/appsec/v1/applications", "?page=1"),
                                 "GET", now, nonce)
    /\ UNCHANGED <<client, ctor, prevSign, call, caInput, caTrace, zip, peer>>

NextConc ==
    \/ ConcConstruct
    \/ ConcStartCall \/ ConcStartPeer
    \/ ConcSettleCall \/ ConcSettlePeer
    \/ ConcSign

SpecConc == Init /\ [][NextConc]_vars

-----------------------------------------------------------------------------
(* Claims about concurrent calls (checked under SpecConc) *)

\* the request a call issues when it runs alone on the client as constructed,
\* at the time it was sent
IssuesLoneRequest(c) ==
    \E nonce \in NonceSamples(ctor.object.nonceSize) :
        c.requests =
            <<IF c.kind = "xml"
              THEN XmlRequestArg(ctor.object,
                                 IF c.op = "_xmlRequest" THEN c.args
                                 ELSE WrapperOptions(ctor.object, c.op, c.args),
                                 c.sentAt[1], nonce)
              ELSE RestRequestArg(ctor.object, c.args, c.sentAt[1], nonce)>>

\* the outcome a call has when it runs alone and its request is answered as
\* this call's was
LoneOutcome(c) ==
    LET r == c.responses[1] IN
    IF r.state = "rejected" THEN r
    ELSE IF c.kind = "xml"
         THEN IF c.op = "_xmlRequest" THEN XmlOutcome(r.value)
              ELSE WrapperOutcome(c.op, XmlOutcome(r.value))
         ELSE RestWrapperOutcome(c.op, RestOutcome(r.value))

\* C21: no operation writes to the client's fields, and every signing draws
\* its own timestamp and nonce: with calls interleaved on one client in any
\* order, the client stays as constructed, and each call issues the request
\* and has the outcome it has when running alone
C21_CallsDoNotInterfere ==
    client # NoClient
        => /\ client = ctor.object
           /\ client = NewClient(ctor.apiId, ctor.apiKey)
           /\ \A c \in {call, peer} :
                 c.pc # "idle"
                    => /\ c.self = ctor.object
                       /\ Len(c.requests) = 1
                       /\ IssuesLoneRequest(c)
                       /\ c.pc = "awaiting" => c.outcome = Pending
                       /\ c.pc = "done" => c.outcome = LoneOutcome(c)
           /\ lastSign.signed
                 => lastSign.header
                       = calculateAuthorizationHeader(ctor.object, lastSign.urlString,
                                                      lastSign.httpMethod,
                                                      lastSign.now, lastSign.nonce)

\* a second call, sent at another time to another URL, has finished and a
\* header was computed while the first call is still awaiting its response
C21_Witness ==
    /\ call.pc = "awaiting" /\ peer.pc = "done" /\ lastSign.signed
    /\ call.op = "getSandboxList" /\ peer.op = "getApplications"
    /\ call.sentAt # peer.sentAt
    /\ peer.outcome.state = "fulfilled"

=============================================================================
